---- MODULE Spec2Model ----
(***************************************************************************)
(* Model of the window-change-detector (src/src/main.rs): the polling loop *)
(* of main() that turns samples of the focused window title and of the     *)
(* idle duration into a ledger of durations, and the Ctrl+C handler that   *)
(* reads the ledger and renders the report.                                *)
(*                                                                         *)
(* Time is counted in seconds.  Every Instant::now() of one loop iteration *)
(* reads the same value of the clock: the clock advances while the loop    *)
(* sleeps (line 212).  A Rust Option is a sequence of length 0 or 1.       *)
(***************************************************************************)
EXTENDS Integers, Sequences, FiniteSets, TLC

VARIABLES
    clock,            \* the monotonic clock read by Instant::now()
    window_times,     \* line 92: the ledger, HashMap<String, Duration>
    last_window,      \* line 93: the current-window label
    last_switch_time, \* line 94: the switch-reference timestamp
    is_idle,          \* line 97
    idle_start_time,  \* line 98: Option<Instant>
    pc,               \* the polling loop's position (line about to run)
    now,              \* the local `now` of lines 166 and 188
    current_title,    \* the local `current_title` of line 185
    duration,         \* the local `duration` of line 192
    lock,             \* holder of each of the three mutexes
    poisoned,         \* the ledger mutex was poisoned by a panicking holder
    hpc,              \* the Ctrl+C handler's position
    entries,          \* line 109: the handler's sorted snapshot
    report,           \* the rows the handler has written so far
    alive,            \* FALSE once the process has exited
    hist,             \* history of the run, read by the properties only
    text,             \* the `title` argument of truncate_or_pad (line 67)
    fitted            \* the String truncate_or_pad returned, once it has

vars == <<clock, window_times, last_window, last_switch_time, is_idle,
          idle_start_time, pc, now, current_title, duration, lock, poisoned,
          hpc, entries, report, alive, hist, text, fitted>>

(***************************************************************************)
(* Bounds of the model and constants of the program.                       *)
(***************************************************************************)
MaxTime == 4          \* the clock stops advancing here
MaxSleep == 2         \* longest gap between two samples, in seconds

IDLE_THRESHOLD == 60  \* line 13

IDLE_KEY == "[idle]"  \* lines 171: the literal key of the idle bucket

None == <<>>
Some(x) == <<x>>

\* Titles the focused-window query can return (line 25): never empty.
Titles == {"Notepad", "Chrome", IDLE_KEY}
TitleInputs == {None} \cup {Some(t) : t \in Titles}
\* Outcomes of the idle query (line 39): GetLastInputInfo succeeds with an
\* idle time, in seconds, or fails.
IdleInputs ==
    {[ok |-> TRUE, idle |-> v] :
        v \in {0, 5, IDLE_THRESHOLD - 1, IDLE_THRESHOLD, IDLE_THRESHOLD + 1}}
    \cup {[ok |-> FALSE, idle |-> 0]}
SleepInputs == {dt \in 1..MaxSleep : clock + dt <= MaxTime}

LockNames == {"window_times", "last_window", "last_switch_time"}

(***************************************************************************)
(* Helpers translated from the expressions of the code.                    *)
(***************************************************************************)
\* lines 29-46: get_idle_duration returns zero when the query fails
GetIdleDuration(q) == IF q.ok THEN q.idle ELSE 0

\* Instant::now()
InstantNow == clock

\* mutant: the difference is taken the wrong way round
DurationSinceSigned(later, earlier) == earlier - later

\* Instant::duration_since: saturates at zero
DurationSince(later, earlier) == IF later >= earlier THEN later - earlier ELSE 0

\* mutant: the entry is assigned instead of added to
CreditAssigns(times, key, d) ==
    [k \in DOMAIN times \cup {key} |-> IF k = key THEN d ELSE times[k]]

\* lines 170-172 and 195-197: *times.entry(key).or_insert(0) += d
Credit(times, key, d) ==
    IF key \in DOMAIN times
    THEN [times EXCEPT ![key] = @ + d]
    ELSE [k \in DOMAIN times \cup {key} |-> IF k = key THEN d ELSE times[k]]

\* mutant: the idle entry is taken on every sample at or above the threshold
EntersIdleAgain(d, idle) == d >= IDLE_THRESHOLD

\* mutant: a sample exactly at the threshold does not enter idle
EntersIdleStrict(d, idle) == d > IDLE_THRESHOLD /\ ~idle

\* line 156: the Active -> Idle condition
EntersIdle(d, idle) == d >= IDLE_THRESHOLD /\ ~idle
\* line 164: the Idle -> Active condition
LeavesIdle(d, idle) == d < IDLE_THRESHOLD /\ idle

\* mutant: a window change is credited in the idle state too
CreditsWindowAlways(idle) == TRUE

\* line 190: a window change is credited only when not idle
CreditsWindow(idle) == ~idle

\* mutant: the idle start is recorded only when none was recorded before
IdleStartOnce(old) == IF old = None THEN Some(clock) ELSE old

\* line 158: idle_start_time = Some(Instant::now())
IdleStartOnEntry(old) == Some(InstantNow)

\* mutant: the switch reference is not reset when the idle period ends
SwitchAfterIdleKept(old, n) == old

\* line 182: *switch_time = now, after an idle period
SwitchAfterIdle(old, n) == n

\* mutant: the new title is credited instead of the previous one
CreditedKeyNew(last, current) == current

\* line 196: the key credited on a window change is the previous title
CreditedKey(last, current) == last

\* mutant: a lock that excludes nobody
CanLockAlways(l) == TRUE

\* Mutex::lock: the caller waits while another thread holds the mutex
CanLock(l) == lock[l] = "free"
Acquire(l, who) == [lock EXCEPT ![l] = who]
\* mutant: a dropped guard leaves its mutex locked
ReleaseKeeps(ls) == lock
\* a guard goes out of scope: its mutex is unlocked
Release(ls) == [l \in LockNames |-> IF l \in ls THEN "free" ELSE lock[l]]

(***************************************************************************)
(* History of the run.  It records what the samples were, independently of *)
(* what the program made of them; the program never reads it.              *)
(*   firstSeen    time of the first tick that observed a window            *)
(*   firstIdle    an idle sample at or above the threshold preceded the    *)
(*                first observation of a window                            *)
(*   failed       the idle query of this tick failed                       *)
(*   sample       the idle duration sampled in this tick: "low" (below the *)
(*                threshold), "high" (at or above it), "none" before the   *)
(*                tick's sample                                            *)
(*   idleSeen     some sample of the idle duration reached the threshold   *)
(*   lastChanged  time of the last tick that changed the current window    *)
(*                (kept while idleSeen is false)                           *)
(*   log          the first LogCap changes of the current window, as       *)
(*                <<title, time>> (kept while idleSeen is false)           *)
(*   period       the idle period of the samples: opened by the first      *)
(*                sample at or above the threshold, ended by the first     *)
(*                later sample below it; forgotten at the end of the tick  *)
(*                that ended it                                            *)
(*   dip          the start of the idle period that the previous tick's    *)
(*                sample ended ("dip"), or that this tick's sample, at or  *)
(*                above the threshold again, followed ("resumed")          *)
(***************************************************************************)
LogCap == 5

HistInit ==
    [firstSeen |-> None, firstIdle |-> FALSE, idleSeen |-> FALSE, lastChanged |-> None,
     log |-> <<>>, period |-> None, dip |-> None, failed |-> FALSE,
     sample |-> "none"]

HistIdleSample(d, queryFailed) ==
    LET high == d >= IDLE_THRESHOLD
        open == hist.period # None /\ ~hist.period[1].ended
    IN  [hist EXCEPT
           !.failed = queryFailed,
           !.sample = IF high THEN "high" ELSE "low",
           !.idleSeen = @ \/ high,
           !.lastChanged = IF high THEN None ELSE @,
           !.log = IF high THEN <<>> ELSE @,
           !.period =
               IF high /\ ~open
               THEN Some([start |-> clock, ledger |-> window_times,
                          changed |-> FALSE, ended |-> FALSE])
               ELSE IF ~high /\ open
               THEN Some([@[1] EXCEPT !.ended = TRUE])
               ELSE @,
           !.dip =
               IF ~high /\ open
               THEN Some([kind |-> "dip", start |-> hist.period[1].start,
                          credit |-> IF IDLE_KEY \in DOMAIN hist.period[1].ledger
                                     THEN hist.period[1].ledger[IDLE_KEY] ELSE 0])
               ELSE IF high /\ @ # None /\ @[1].kind = "dip"
               THEN Some([@[1] EXCEPT !.kind = "resumed"])
               ELSE None]

HistTitleSample(t) ==
    [hist EXCEPT
       !.firstSeen = IF @ = None /\ t # None THEN Some(clock) ELSE @,
       !.firstIdle = IF hist.firstSeen = None /\ t # None THEN hist.idleSeen ELSE @,
       !.period = IF @ # None /\ t # None /\ t[1] # last_window
                  THEN Some([@[1] EXCEPT !.changed = TRUE])
                  ELSE @]

HistWindowChanged(t) ==
    [hist EXCEPT
       !.lastChanged = IF hist.idleSeen THEN None ELSE Some(clock),
       !.log = IF hist.idleSeen \/ Len(@) >= LogCap THEN @
               ELSE Append(@, <<t, clock>>)]

HistSleep ==
    [hist EXCEPT
       !.failed = FALSE,
       !.sample = "none",
       !.period = IF @ # None /\ @[1].ended THEN None ELSE @,
       !.dip = IF @ # None /\ @[1].kind = "resumed" THEN None ELSE @]

(***************************************************************************)
(* The state after construction (lines 92-98) with the handler registered  *)
(* and not yet invoked.                                                    *)
(***************************************************************************)
ProgramInit ==
    /\ clock = 0
    /\ window_times = [k \in {} |-> 0]
    /\ last_window = ""
    /\ last_switch_time = 0
    /\ is_idle = FALSE
    /\ idle_start_time = None
    /\ pc = "L155"
    /\ now = 0
    /\ current_title = None
    /\ duration = 0
    /\ lock = [l \in LockNames |-> "free"]
    /\ poisoned = FALSE
    /\ hpc = "none"
    /\ entries = <<>>
    /\ report = <<>>
    /\ alive = TRUE
    /\ hist = HistInit

Init ==
    /\ ProgramInit
    /\ text = <<>>
    /\ fitted = None

handlerVars == <<hpc, entries, report>>
localVars == <<now, current_title, duration>>
idleVars == <<is_idle, idle_start_time>>
sharedVars == <<window_times, last_window, last_switch_time>>
textVars == <<text, fitted>>

(***************************************************************************)
(* The polling loop, lines 154-213.  pc names the line the loop is about   *)
(* to run.  Every step needs the process to be alive.                      *)
(***************************************************************************)

\* lines 155-158, 164-166: sample the idle duration and branch on it
PollIdle(inputs) ==
    /\ alive /\ pc = "L155"
    /\ \E q \in inputs : LET d == GetIdleDuration(q) IN
         /\ hist' = HistIdleSample(d, ~q.ok)
         /\ IF EntersIdle(d, is_idle)
            THEN /\ is_idle' = TRUE
                 /\ idle_start_time' = IdleStartOnEntry(idle_start_time)
                 /\ pc' = "L159"
                 /\ now' = now
            ELSE IF LeavesIdle(d, is_idle)
            THEN /\ is_idle' = FALSE
                 /\ now' = InstantNow
                 /\ pc' = IF idle_start_time # None THEN "L169" ELSE "L181"
                 /\ idle_start_time' = idle_start_time
            ELSE /\ pc' = "L185"
                 /\ UNCHANGED <<is_idle, idle_start_time, now>>
    /\ UNCHANGED <<clock, sharedVars, current_title, duration, lock, poisoned,
                   handlerVars, alive>>
    /\ UNCHANGED textVars

\* lines 159-163: the console line of the idle entry
PrintIdleEntry ==
    /\ alive /\ pc = "L159"
    /\ pc' = "L185"
    /\ UNCHANGED <<clock, sharedVars, idleVars, localVars, lock, poisoned,
                   handlerVars, alive, hist>>
    /\ UNCHANGED textVars

\* line 169: window_times.lock().unwrap(); a poisoned mutex panics main
LockTimesIdle ==
    /\ alive /\ pc = "L169"
    /\ CanLock("window_times")
    /\ IF poisoned
       THEN /\ pc' = "panicked" /\ alive' = FALSE /\ lock' = lock
       ELSE /\ pc' = "L170" /\ alive' = alive
            /\ lock' = Acquire("window_times", "loop")
    /\ UNCHANGED <<clock, sharedVars, idleVars, localVars, poisoned,
                   handlerVars, hist>>
    /\ UNCHANGED textVars

\* lines 168, 170-172: credit the idle period to the idle bucket
CreditIdle ==
    /\ alive /\ pc = "L170"
    /\ window_times' =
           Credit(window_times, IDLE_KEY, DurationSince(now, idle_start_time[1]))
    /\ pc' = "L174"
    /\ UNCHANGED <<clock, last_window, last_switch_time, idleVars, localVars,
                   lock, poisoned, handlerVars, alive, hist>>
    /\ UNCHANGED textVars

\* lines 173-180: the console line of the idle exit, written with the
\* ledger guard `times` alive; the guard is dropped at line 180
PrintIdleExit ==
    /\ alive /\ pc = "L174"
    /\ lock' = Release({"window_times"})
    /\ pc' = "L181"
    /\ UNCHANGED <<clock, sharedVars, idleVars, localVars, poisoned,
                   handlerVars, alive, hist>>
    /\ UNCHANGED textVars

\* line 181: last_switch_time.lock().unwrap()
LockSwitchIdle ==
    /\ alive /\ pc = "L181"
    /\ CanLock("last_switch_time")
    /\ lock' = Acquire("last_switch_time", "loop")
    /\ pc' = "L182"
    /\ UNCHANGED <<clock, sharedVars, idleVars, localVars, poisoned,
                   handlerVars, alive, hist>>
    /\ UNCHANGED textVars

\* lines 182-183: *switch_time = now; the guard is dropped
SetSwitchIdle ==
    /\ alive /\ pc = "L182"
    /\ last_switch_time' = SwitchAfterIdle(last_switch_time, now)
    /\ lock' = Release({"last_switch_time"})
    /\ pc' = "L185"
    /\ UNCHANGED <<clock, window_times, last_window, idleVars, localVars,
                   poisoned, handlerVars, alive, hist>>
    /\ UNCHANGED textVars

\* line 185: sample the focused title; None skips to the sleep
PollTitle(inputs) ==
    /\ alive /\ pc = "L185"
    /\ \E t \in inputs :
         /\ current_title' = t
         /\ hist' = HistTitleSample(t)
         /\ pc' = IF t = None THEN "L212" ELSE "L186"
    /\ UNCHANGED <<clock, sharedVars, idleVars, now, duration, lock, poisoned,
                   handlerVars, alive>>
    /\ UNCHANGED textVars

\* lines 186-190: lock the current-window label and compare it with the
\* sample; an equal title drops the guard at once (line 210)
LockLastWindow ==
    /\ alive /\ pc = "L186"
    /\ CanLock("last_window")
    /\ IF last_window # current_title[1]
       THEN /\ lock' = Acquire("last_window", "loop")
            /\ now' = InstantNow
            /\ pc' = IF CreditsWindow(is_idle) THEN "L191" ELSE "L208"
       ELSE /\ pc' = "L212"
            /\ UNCHANGED <<lock, now>>
    /\ UNCHANGED <<clock, sharedVars, idleVars, current_title, duration,
                   poisoned, handlerVars, alive, hist>>
    /\ UNCHANGED textVars

\* lines 191-192: lock the switch reference and take the elapsed time
LockSwitch ==
    /\ alive /\ pc = "L191"
    /\ CanLock("last_switch_time")
    /\ lock' = Acquire("last_switch_time", "loop")
    /\ duration' = DurationSince(now, last_switch_time)
    /\ pc' = "L193"
    /\ UNCHANGED <<clock, sharedVars, idleVars, now, current_title, poisoned,
                   handlerVars, alive, hist>>
    /\ UNCHANGED textVars

\* line 193: window_times.lock().unwrap(); a poisoned mutex panics main
LockTimes ==
    /\ alive /\ pc = "L193"
    /\ CanLock("window_times")
    /\ IF poisoned
       THEN /\ pc' = "panicked" /\ alive' = FALSE /\ lock' = lock
       ELSE /\ pc' = "L194" /\ alive' = alive
            /\ lock' = Acquire("window_times", "loop")
    /\ UNCHANGED <<clock, sharedVars, idleVars, localVars, poisoned,
                   handlerVars, hist>>
    /\ UNCHANGED textVars

\* lines 194-197: credit the previous window, unless there was none
CreditWindow ==
    /\ alive /\ pc = "L194"
    /\ IF last_window # ""
       THEN /\ window_times' =
                   Credit(window_times,
                          CreditedKey(last_window, current_title[1]), duration)
            /\ pc' = "L199"
       ELSE /\ window_times' = window_times
            /\ pc' = "L206"
    /\ UNCHANGED <<clock, last_window, last_switch_time, idleVars, localVars,
                   lock, poisoned, handlerVars, alive, hist>>
    /\ UNCHANGED textVars

\* lines 199-203: the console line of the window change, written with the
\* three guards alive
PrintSwitch ==
    /\ alive /\ pc = "L199"
    /\ pc' = "L206"
    /\ UNCHANGED <<clock, sharedVars, idleVars, localVars, lock, poisoned,
                   handlerVars, alive, hist>>
    /\ UNCHANGED textVars

\* lines 206-207: *switch_time = now; the ledger guard and the
\* switch-reference guard are dropped
SetSwitch ==
    /\ alive /\ pc = "L206"
    /\ last_switch_time' = now
    /\ lock' = Release({"window_times", "last_switch_time"})
    /\ pc' = "L208"
    /\ UNCHANGED <<clock, window_times, last_window, idleVars, localVars,
                   poisoned, handlerVars, alive, hist>>
    /\ UNCHANGED textVars

\* lines 208-210: *last_title = current_title; the guard is dropped
SetLast ==
    /\ alive /\ pc = "L208"
    /\ last_window' = current_title[1]
    /\ hist' = HistWindowChanged(current_title[1])
    /\ lock' = Release({"last_window"})
    /\ pc' = "L212"
    /\ UNCHANGED <<clock, window_times, last_switch_time, idleVars, localVars,
                   poisoned, handlerVars, alive>>
    /\ UNCHANGED textVars

\* line 212: thread::sleep; the locals of the iteration go out of scope
Sleep(inputs) ==
    /\ alive /\ pc = "L212"
    /\ \E dt \in inputs : clock' = clock + dt
    /\ pc' = "L155"
    /\ now' = 0 /\ current_title' = None /\ duration' = 0
    /\ hist' = HistSleep
    /\ UNCHANGED <<sharedVars, idleVars, lock, poisoned, handlerVars, alive>>
    /\ UNCHANGED textVars

(***************************************************************************)
(* The Ctrl+C handler, lines 100-149, run once on a thread of its own.     *)
(***************************************************************************)

\* HashMap::iter (line 109): the entries in any order
IterOrders(times) ==
    {o \in [1..Cardinality(DOMAIN times) -> DOMAIN times] :
        \A i, j \in DOMAIN o : i # j => o[i] # o[j]}

\* mutant: the comparison of line 110 reversed, an ascending sort
RECURSIVE InsertAsc(_, _)
InsertAsc(e, sorted) ==
    IF sorted = <<>> THEN <<e>>
    ELSE IF Head(sorted)[2] <= e[2]
         THEN <<Head(sorted)>> \o InsertAsc(e, Tail(sorted))
         ELSE <<e>> \o sorted

\* line 110: entries.sort_by(|a, b| b.1.cmp(a.1)), a stable sort: each
\* entry goes behind the entries whose duration is not smaller
RECURSIVE InsertDesc(_, _)
InsertDesc(e, sorted) ==
    IF sorted = <<>> THEN <<e>>
    ELSE IF Head(sorted)[2] >= e[2]
         THEN <<Head(sorted)>> \o InsertDesc(e, Tail(sorted))
         ELSE <<e>> \o sorted

RECURSIVE SortDesc(_)
SortDesc(s) ==
    IF s = <<>> THEN <<>>
    ELSE InsertDesc(s[Len(s)], SortDesc(SubSeq(s, 1, Len(s) - 1)))

\* the Ctrl+C signal arrives (line 100: the registered closure is invoked)
Signal ==
    /\ alive /\ hpc = "none"
    /\ hpc' = "H101"
    /\ UNCHANGED <<clock, sharedVars, idleVars, pc, localVars, lock, poisoned,
                   entries, report, alive, hist>>
    /\ UNCHANGED textVars

\* line 101: the console banner
HPrintBanner ==
    /\ alive /\ hpc = "H101"
    /\ hpc' = "H103"
    /\ UNCHANGED <<clock, sharedVars, idleVars, pc, localVars, lock, poisoned,
                   entries, report, alive, hist>>
    /\ UNCHANGED textVars

\* mutant: the handler credits the open interval of the current window
\* before it reads the ledger
HLockFlushes ==
    /\ alive /\ hpc = "H103"
    /\ CanLock("window_times")
    /\ lock' = Acquire("window_times", "handler")
    /\ hpc' = "H106"
    /\ window_times' =
           IF last_window # "" /\ ~is_idle
           THEN Credit(window_times, last_window,
                       DurationSince(clock, last_switch_time))
           ELSE window_times
    /\ UNCHANGED <<clock, last_window, last_switch_time, idleVars, pc,
                   localVars, poisoned, entries, report, alive, hist>>
    /\ UNCHANGED textVars

\* line 103: window_times_clone.lock().unwrap(); the guard lives to the
\* end of the closure
HLock ==
    /\ alive /\ hpc = "H103"
    /\ CanLock("window_times")
    /\ lock' = Acquire("window_times", "handler")
    /\ hpc' = "H106"
    /\ UNCHANGED <<clock, sharedVars, idleVars, pc, localVars, poisoned,
                   entries, report, alive, hist>>
    /\ UNCHANGED textVars

\* lines 104-106: File::create succeeds
HCreateFile ==
    /\ alive /\ hpc = "H106"
    /\ hpc' = "H109"
    /\ UNCHANGED <<clock, sharedVars, idleVars, pc, localVars, lock, poisoned,
                   entries, report, alive, hist>>
    /\ UNCHANGED textVars

\* lines 109-110: collect the entries and sort them
HCollectSort ==
    /\ alive /\ hpc = "H109"
    /\ \E o \in IterOrders(window_times) :
         entries' = SortDesc([i \in DOMAIN o |-> <<o[i], window_times[o[i]]>>])
    /\ hpc' = "H112"
    /\ UNCHANGED <<clock, sharedVars, idleVars, pc, localVars, lock, poisoned,
                   report, alive, hist>>
    /\ UNCHANGED textVars

\* lines 112-129: the three header lines of the file
HWriteHeader ==
    /\ alive /\ hpc = "H112"
    /\ hpc' = "H131"
    /\ UNCHANGED <<clock, sharedVars, idleVars, pc, localVars, lock, poisoned,
                   entries, report, alive, hist>>
    /\ UNCHANGED textVars

\* lines 131-136: one row, to the file and to the console; report keeps
\* the entry each written row renders
HWriteRow ==
    /\ alive /\ hpc = "H131"
    /\ Len(report) < Len(entries)
    /\ report' = Append(report, entries[Len(report) + 1])
    /\ UNCHANGED <<clock, sharedVars, idleVars, pc, localVars, lock, poisoned,
                   hpc, entries, alive, hist>>
    /\ UNCHANGED textVars

\* lines 138-144: the closing line and the two console lines
HWriteFooter ==
    /\ alive /\ hpc = "H131"
    /\ Len(report) = Len(entries)
    /\ hpc' = "H147"
    /\ UNCHANGED <<clock, sharedVars, idleVars, pc, localVars, lock, poisoned,
                   entries, report, alive, hist>>
    /\ UNCHANGED textVars

\* lines 146-147: stdin().read_line returns once the user presses Enter
HReadLine ==
    /\ alive /\ hpc = "H147"
    /\ hpc' = "H148"
    /\ UNCHANGED <<clock, sharedVars, idleVars, pc, localVars, lock, poisoned,
                   entries, report, alive, hist>>
    /\ UNCHANGED textVars

\* line 148: std::process::exit(0); no destructor runs
HExit ==
    /\ alive /\ hpc = "H148"
    /\ alive' = FALSE
    /\ hpc' = "exited"
    /\ UNCHANGED <<clock, sharedVars, idleVars, pc, localVars, lock, poisoned,
                   entries, report, hist>>
    /\ UNCHANGED textVars

\* lines 106, 116, 124, 129, 134, 142: File::create or a writeln! fails and
\* expect/unwrap panics: the handler's thread unwinds, which drops the
\* ledger guard and poisons the mutex
HPanic ==
    /\ alive /\ hpc \in {"H106", "H112", "H131"}
    /\ hpc' = "panicked"
    /\ poisoned' = TRUE
    /\ lock' = Release({"window_times"})
    /\ UNCHANGED <<clock, sharedVars, idleVars, pc, localVars, entries,
                   report, alive, hist>>
    /\ UNCHANGED textVars

Handler ==
    \/ Signal \/ HPrintBanner \/ HLock \/ HCreateFile \/ HCollectSort
    \/ HWriteHeader \/ HWriteRow \/ HWriteFooter \/ HReadLine \/ HExit
    \/ HPanic

Next ==
    \/ PollIdle(IdleInputs)
    \/ PrintIdleEntry
    \/ LockTimesIdle
    \/ CreditIdle
    \/ PrintIdleExit
    \/ LockSwitchIdle
    \/ SetSwitchIdle
    \/ PollTitle(TitleInputs)
    \/ LockLastWindow
    \/ LockSwitch
    \/ LockTimes
    \/ CreditWindow
    \/ PrintSwitch
    \/ SetSwitch
    \/ SetLast
    \/ Sleep(SleepInputs)
    \/ Handler

Spec == Init /\ [][Next]_vars

(***************************************************************************)
(* Scheduling.  Both threads keep running: a step of the polling loop that *)
(* can be taken is eventually taken, and so is a step of the handler once  *)
(* the signal has arrived.  The handler's lock() at line 103 competes with *)
(* a loop that takes and drops the ledger lock again and again and sleeps  *)
(* in between without any lock, so the handler gets the lock if it is free *)
(* again and again (strong fairness).  Nothing is assumed about when the   *)
(* signal arrives, whether the file operations succeed, or when the user   *)
(* presses Enter.                                                          *)
(***************************************************************************)
Fairness ==
    /\ WF_vars(PollIdle(IdleInputs))
    /\ WF_vars(PrintIdleEntry)
    /\ WF_vars(LockTimesIdle)
    /\ WF_vars(CreditIdle)
    /\ WF_vars(PrintIdleExit)
    /\ WF_vars(LockSwitchIdle)
    /\ WF_vars(SetSwitchIdle)
    /\ WF_vars(PollTitle(TitleInputs))
    /\ WF_vars(LockLastWindow)
    /\ WF_vars(LockSwitch)
    /\ WF_vars(LockTimes)
    /\ WF_vars(CreditWindow)
    /\ WF_vars(PrintSwitch)
    /\ WF_vars(SetSwitch)
    /\ WF_vars(SetLast)
    /\ WF_vars(Sleep(SleepInputs))
    /\ WF_vars(HPrintBanner)
    /\ SF_vars(HLock)
    /\ WF_vars(HCreateFile)
    /\ WF_vars(HCollectSort)
    /\ WF_vars(HWriteHeader)
    /\ WF_vars(HWriteRow)
    /\ WF_vars(HWriteFooter)

SpecFair == Init /\ [][Next]_vars /\ Fairness

(***************************************************************************)
(* The sample trace of the specification's example (section 8): samples at *)
(* t=0 "Notepad", t=2 "Notepad", t=5 "Chrome", t=9 idle duration above the *)
(* threshold, t=20 idle duration below it with "Notepad" focused.  The     *)
(* program's steps are those of Next; only the inputs are the trace's.     *)
(***************************************************************************)
ExampleTrace ==
    << [t |-> 0, idle |-> 0, title |-> "Notepad"],
       [t |-> 2, idle |-> 0, title |-> "Notepad"],
       [t |-> 5, idle |-> 0, title |-> "Chrome"],
       [t |-> 9, idle |-> 61, title |-> "Chrome"],
       [t |-> 20, idle |-> 5, title |-> "Notepad"] >>

ExampleNow == {ExampleTrace[i] : i \in {j \in DOMAIN ExampleTrace : ExampleTrace[j].t = clock}}
ExampleIdleInputs == {[ok |-> TRUE, idle |-> e.idle] : e \in ExampleNow}
ExampleTitleInputs == {Some(e.title) : e \in ExampleNow}
ExampleSleepInputs ==
    {ExampleTrace[i + 1].t - clock :
        i \in {j \in DOMAIN ExampleTrace :
                  j < Len(ExampleTrace) /\ ExampleTrace[j].t = clock}}

NextExample ==
    \/ PollIdle(ExampleIdleInputs)
    \/ PrintIdleEntry
    \/ LockTimesIdle
    \/ CreditIdle
    \/ PrintIdleExit
    \/ LockSwitchIdle
    \/ SetSwitchIdle
    \/ PollTitle(ExampleTitleInputs)
    \/ LockLastWindow
    \/ LockSwitch
    \/ LockTimes
    \/ CreditWindow
    \/ PrintSwitch
    \/ SetSwitch
    \/ SetLast
    \/ Sleep(ExampleSleepInputs)
    \/ Handler

SpecExample == Init /\ [][NextExample]_vars

(***************************************************************************)
(* The text utilities, lines 48-89.  A text is a sequence of characters.   *)
(* "W" stands for a wide character (two columns, e.g. a Hangul syllable),  *)
(* "z" for a character of no width (a combining mark, or a control         *)
(* character, whose width() is None); every other character is one column  *)
(* wide.  "/" and "\\" are the path separators of the target platform.      *)
(***************************************************************************)
TITLE_WIDTH == 40     \* line 12

\* line 73: ch.width().unwrap_or(0)
CharWidth(c) == IF c = "W" THEN 2 ELSE IF c = "z" THEN 0 ELSE 1

\* line 82: UnicodeWidthStr::width
RECURSIVE StrWidth(_)
StrWidth(s) == IF s = <<>> THEN 0 ELSE CharWidth(Head(s)) + StrWidth(Tail(s))

IsSeparator(c) == c \in {"/", "\\"}

\* the pieces of a path between its separators, empty ones included
RECURSIVE SplitPath(_)
SplitPath(s) ==
    IF s = <<>> THEN << <<>> >>
    ELSE LET rest == SplitPath(Tail(s))
         IN  IF IsSeparator(Head(s))
             THEN << <<>> >> \o rest
             ELSE << <<Head(s)>> \o rest[1] >> \o Tail(rest)

\* Path::file_name (line 51): the last component, ignoring empty pieces
\* (repeated or trailing separators) and "." pieces; None when there is no
\* such component or when it is ".."
FileName(s) ==
    LET comps == SelectSeq(SplitPath(s), LAMBDA c : c # <<>> /\ c # <<".">>)
    IN  IF comps = <<>> \/ comps[Len(comps)] = <<".", ".">>
        THEN None
        ELSE Some(comps[Len(comps)])

\* lines 48-57
CleanWindowTitle(title) ==
    IF \E i \in DOMAIN title : IsSeparator(title[i])
    THEN IF FileName(title) = None THEN title ELSE FileName(title)[1]
    ELSE title

\* lines 72-80: the characters that fit, then "..." in place of the first
\* one that does not
RECURSIVE TakeFitting(_, _, _)
TakeFitting(clean, current_width, max_width) ==
    IF clean = <<>> THEN <<>>
    ELSE LET ch_width == CharWidth(Head(clean))
         IN  IF current_width + ch_width > max_width
             THEN <<".", ".", ".">>
             ELSE <<Head(clean)>>
                  \o TakeFitting(Tail(clean), current_width + ch_width, max_width)

\* lines 67-89
TruncateOrPad(title, max_width) ==
    LET result == TakeFitting(CleanWindowTitle(title), 0, max_width)
        total_width == StrWidth(result)
    IN  IF total_width < max_width
        THEN result \o [i \in 1..(max_width - total_width) |-> " "]
        ELSE result

\* The texts truncate_or_pad is applied to: an optional path prefix, then
\* runs of narrow, wide and zero-width characters, the wide run first or
\* the narrow run first.
MaxNarrow == 42
MaxWide == 21

Run(c, n) == [i \in 1..n |-> c]

TextInputs ==
    {prefix \o (IF wideFirst THEN Run("W", w) \o Run("a", n)
                ELSE Run("a", n) \o Run("W", w)) \o Run("z", z) :
        prefix \in {<<>>, <<"d", "/">>}, wideFirst \in BOOLEAN,
        n \in 0..MaxNarrow, w \in 0..MaxWide, z \in 0..1}

InitText ==
    /\ ProgramInit
    /\ text \in TextInputs
    /\ fitted = None

\* lines 67-89: one call of truncate_or_pad(text, TITLE_WIDTH)
FitWidth ==
    /\ fitted = None
    /\ fitted' = Some(TruncateOrPad(text, TITLE_WIDTH))
    /\ UNCHANGED <<clock, sharedVars, idleVars, pc, localVars, lock, poisoned,
                   handlerVars, alive, hist, text>>

NextText == FitWidth

SpecText == InitText /\ [][NextText]_vars

(***************************************************************************)
(* Window titles that are file paths.  The program's steps are those of    *)
(* Next; the titles are a file name and the same file name behind a path   *)
(* prefix.  TitleChars spells out the characters of the titles used.       *)
(***************************************************************************)
PathTitles == {"Notepad", "d/Notepad"}
PathTitleInputs == {None} \cup {Some(t) : t \in PathTitles}

TitleChars(t) ==
    CASE t = "Notepad" -> <<"N", "o", "t", "e", "p", "a", "d">>
      [] t = "d/Notepad" -> <<"d", "/", "N", "o", "t", "e", "p", "a", "d">>
      [] t = "Chrome" -> <<"C", "h", "r", "o", "m", "e">>
      [] t = IDLE_KEY -> <<"[", "i", "d", "l", "e", "]">>

NextPaths ==
    \/ PollIdle(IdleInputs)
    \/ PrintIdleEntry
    \/ LockTimesIdle
    \/ CreditIdle
    \/ PrintIdleExit
    \/ LockSwitchIdle
    \/ SetSwitchIdle
    \/ PollTitle(PathTitleInputs)
    \/ LockLastWindow
    \/ LockSwitch
    \/ LockTimes
    \/ CreditWindow
    \/ PrintSwitch
    \/ SetSwitch
    \/ SetLast
    \/ Sleep(SleepInputs)
    \/ Handler

SpecPaths == Init /\ [][NextPaths]_vars

(***************************************************************************)
(* Notions the properties are stated in.                                   *)
(***************************************************************************)
\* the ledger entry of a key, zero when the key is absent
Val(times, k) == IF k \in DOMAIN times THEN times[k] ELSE 0

RECURSIVE SumOver(_, _)
SumOver(times, keys) ==
    IF keys = {} THEN 0
    ELSE LET k == CHOOSE x \in keys : TRUE
         IN  times[k] + SumOver(times, keys \ {k})

\* the sum of all ledger entries
Total(times) == SumOver(times, DOMAIN times)

\* the interval that is open and not yet credited
OpenInterval ==
    clock - (IF is_idle THEN idle_start_time[1] ELSE last_switch_time)

\* the polling loop has completed its iteration
TickDone == pc = "L212"

WindowKeys == Titles \ {IDLE_KEY}

\* the ledger a sequence of (label, duration) entries spells out
LedgerOf(es) ==
    [k \in {es[i][1] : i \in DOMAIN es} |->
        es[CHOOSE i \in DOMAIN es : es[i][1] = k][2]]

\* the locks a thread holds, and the positions at which a thread is in a
\* blocking I/O call (console write, file creation or write, read_line)
HeldBy(who) == {l \in LockNames : lock[l] = who}
LoopAtIO == pc \in {"L159", "L174", "L199"}
HandlerAtIO == hpc \in {"H101", "H106", "H112", "H131", "H147"}

(***************************************************************************)
(* The claims.                                                             *)
(***************************************************************************)

\* C1: when no sample of the idle duration has reached the threshold, the
\* sum of all ledger entries after a tick equals the time of the last tick
\* that changed the current window minus the time of the first tick that
\* observed a window.
C1_LedgerSumNoIdle ==
    (TickDone /\ ~hist.idleSeen /\ hist.firstSeen # None)
        => /\ hist.lastChanged # None
           /\ Total(window_times) = hist.lastChanged[1] - hist.firstSeen[1]

\* C1 witness: a run without idle samples has changed the window three
\* times and credited time.
C1_Witness ==
    /\ TickDone /\ ~hist.idleSeen /\ Len(hist.log) >= 3
    /\ Total(window_times) >= 2

\* C2 (as claimed): after any sequence of samples that begins with a window
\* observed while active, the sum of all ledger entries plus the currently
\* open interval equals the time elapsed since the first window was
\* observed.
C2_TimeNeverLost ==
    (TickDone /\ hist.firstSeen # None /\ ~hist.firstIdle)
        => Total(window_times) + OpenInterval = clock - hist.firstSeen[1]

\* C3: from the first idle sample of an idle period to the end of the tick
\* that ends it, no step increases the ledger entry of a window bucket;
\* only the idle bucket can grow.
C3_IdleCreditsOnlyIdleBucket ==
    [][(is_idle \/ hist.period # None)
          => \A k \in WindowKeys : Val(window_times', k) = Val(window_times, k)]_vars

\* C3 witness: while idle, the loop is about to replace a window that was
\* focused for some time by another one.
C3_Witness ==
    /\ is_idle /\ pc = "L208" /\ last_window \in WindowKeys
    /\ clock > last_switch_time

\* C4: an idle period entered at tick t1 and left at tick t2 with the
\* focused window unchanged throughout increases the idle bucket by exactly
\* t2 - t1 at t2 and increases no window bucket.
C4_IdlePeriodCredit ==
    (TickDone /\ hist.period # None /\ hist.period[1].ended
       /\ ~hist.period[1].changed)
        => LET p == hist.period[1]
           IN  /\ Val(window_times, IDLE_KEY)
                     = Val(p.ledger, IDLE_KEY) + (clock - p.start)
               /\ \A k \in WindowKeys : Val(window_times, k) = Val(p.ledger, k)
               /\ DOMAIN window_times = DOMAIN p.ledger \cup {IDLE_KEY}

\* C4 witness: an idle period of two seconds or more has just ended with a
\* window focused and unchanged throughout.
C4_Witness ==
    /\ TickDone /\ hist.period # None /\ hist.period[1].ended
    /\ ~hist.period[1].changed
    /\ last_window # "" /\ clock - hist.period[1].start >= 2

\* C5: after the focus sequence A -> B -> A -> other without idle samples,
\* the ledger entry of B is the time between the switch to B and the switch
\* back to A, and the entry of A is the sum of the two intervals of A.
C5_FocusABA ==
    (TickDone /\ ~hist.idleSeen /\ Len(hist.log) = 4
       /\ hist.log[1][1] = hist.log[3][1])
        => LET l == hist.log
           IN  /\ Val(window_times, l[2][1]) = l[3][2] - l[2][2]
               /\ Val(window_times, l[1][1])
                     = (l[2][2] - l[1][2]) + (l[4][2] - l[3][2])

\* C5 witness: the focus went A -> B -> A -> other.
C5_Witness ==
    /\ TickDone /\ ~hist.idleSeen /\ Len(hist.log) = 4
    /\ hist.log[1][1] = hist.log[3][1]

\* the tick at t=20 of the example trace is complete
ExampleDone == TickDone /\ clock = ExampleTrace[Len(ExampleTrace)].t

\* C6 (as claimed): after the t=20 tick of the example trace the ledger is
\* exactly {"Notepad": 5, idle bucket: 11}, with no other key, the current
\* window is "Notepad" and the switch-reference timestamp is 20.
C6_ExampleLedgerClaimed ==
    ExampleDone
        => /\ window_times = [k \in {"Notepad", IDLE_KEY} |->
                                 IF k = "Notepad" THEN 5 ELSE 11]
           /\ last_window = "Notepad"
           /\ last_switch_time = 20

\* C6 (amended): after the t=20 tick of the example trace the ledger is
\* {"Notepad": 5, idle bucket: 11, "Chrome": 0}: the window change seen in
\* the tick that leaves idle credits the previous window "Chrome" with the
\* zero time since the switch reference was reset; the current window is
\* "Notepad" and the switch-reference timestamp is 20.
C6_ExampleLedger ==
    ExampleDone
        => /\ DOMAIN window_times = {"Notepad", IDLE_KEY, "Chrome"}
           /\ window_times["Notepad"] = 5
           /\ window_times[IDLE_KEY] = 11
           /\ window_times["Chrome"] = 0
           /\ last_window = "Notepad"
           /\ last_switch_time = 20

\* C6 witness: the example trace has run to the end of its t=20 tick, with
\* the idle period credited.
C6_Witness == ExampleDone /\ ~is_idle /\ IDLE_KEY \in DOMAIN window_times

\* C7 (as claimed): when a sample below the threshold taken while idle is
\* followed by a sample at or above it, the idle period has not ended: the
\* idle flag is set, the idle-start timestamp is the one of the period's
\* entry, and the idle bucket has not been credited for the period yet.
C7_DipKeepsIdlePeriod ==
    (hist.dip # None /\ hist.dip[1].kind = "resumed")
        => /\ is_idle
           /\ idle_start_time = Some(hist.dip[1].start)
           /\ Val(window_times, IDLE_KEY) = hist.dip[1].credit

\* C7 (amended): while the samples stay at or above the threshold the idle
\* period stays open (flag set, idle-start timestamp kept, idle bucket not
\* credited); the first sample below the threshold ends it in that tick,
\* clearing the flag and crediting the idle bucket once with the whole
\* period.
C7_IdlePeriodEndsAtFirstDip ==
    hist.period # None
        => LET p == hist.period[1]
           IN  IF ~p.ended
               THEN /\ is_idle
                    /\ idle_start_time = Some(p.start)
                    /\ Val(window_times, IDLE_KEY) = Val(p.ledger, IDLE_KEY)
               ELSE /\ ~is_idle
                    /\ TickDone => Val(window_times, IDLE_KEY)
                                     = Val(p.ledger, IDLE_KEY) + (clock - p.start)

\* C7 witness: an idle period has been open over several samples at or
\* above the threshold.
C7_Witness ==
    /\ hist.period # None /\ ~hist.period[1].ended
    /\ clock >= hist.period[1].start + 2 /\ pc = "L185"

\* C8: once the handler has taken its snapshot, the entries it reports are
\* the ledger, each key once with its value, and the ledger stays what the
\* snapshot says while the handler renders: no credit is split or added.
C8_HandlerSnapshotConsistent ==
    hpc \in {"H112", "H131", "H147", "H148"}
        => /\ Len(entries) = Cardinality(DOMAIN window_times)
           /\ LedgerOf(entries) = window_times
           /\ report = SubSeq(entries, 1, Len(report))

\* C8 witness: the handler is writing rows while the polling loop is in the
\* middle of a transition, about to credit.
C8_Witness ==
    /\ hpc = "H131" /\ Len(report) >= 1
    /\ pc \in {"L169", "L193"}

\* C9 (as claimed): no thread holds one of the three locks while it is in a
\* blocking I/O call.
C9_NoLockHeldAcrossIO ==
    /\ LoopAtIO => HeldBy("loop") = {}
    /\ HandlerAtIO => HeldBy("handler") = {}

\* C10 (as claimed): whenever the polling loop attempts to acquire a lock,
\* it is not kept waiting by the handler's file writing or by the wait for
\* the user's acknowledgment.
C10_LoopNeverWaitsForHandler ==
    ~ /\ alive
      /\ pc \in {"L169", "L193"}
      /\ lock["window_times"] = "handler"
      /\ hpc \in {"H106", "H109", "H112", "H131", "H147"}

\* the durations of a sequence of (label, duration) entries, summed
RECURSIVE SumRows(_)
SumRows(es) == IF es = <<>> THEN 0 ELSE es[1][2] + SumRows(Tail(es))

\* the handler has written every row of its report
ReportDone == hpc \in {"H147", "H148", "exited"}

\* C11: no step of the termination handler changes the ledger, and the
\* finished report says what the ledger holds: the time of the interval
\* that is open when termination is requested is in no row.
C11_ShutdownDoesNotFlush ==
    /\ [][(hpc' # hpc \/ report' # report) => window_times' = window_times]_vars
    /\ [](ReportDone => /\ LedgerOf(report) = window_times
                         /\ SumRows(report) = Total(window_times))

\* C11 witness: the report is written while a window has been focused for
\* some time since the last credited transition.
C11_Witness ==
    /\ hpc = "H147" /\ Len(report) >= 1
    /\ ~is_idle /\ last_window # "" /\ clock - last_switch_time >= 1
    /\ SumRows(report) < clock - hist.firstSeen[1]

\* the positions of the idle handling of a tick, lines 155-183
IdlePart == {"L155", "L159", "L169", "L170", "L174", "L181", "L182"}

\* C12 (as claimed): the idle handling of a tick whose idle query failed,
\* and a title query that yields none, leave the ledger, the current
\* window, the idle flag and both reference timestamps unchanged, in every
\* state.
C12_FailedQueryIsNoObservation ==
    [][/\ (hist'.failed /\ pc \in IdlePart)
            => UNCHANGED <<window_times, last_window, is_idle,
                           idle_start_time, last_switch_time>>
       /\ (pc = "L185" /\ pc' # pc /\ current_title' = None)
            => UNCHANGED <<window_times, last_window, is_idle,
                           idle_start_time, last_switch_time>>]_vars

\* C17 (as claimed): for every text, truncate_or_pad(text, 40) returns a
\* string of exactly 40 display columns.
C17_FitWidthIsExact ==
    fitted # None => StrWidth(fitted[1]) = TITLE_WIDTH

\* a title is its own cleaned form
IsCleaned(t) == CleanWindowTitle(TitleChars(t)) = TitleChars(t)

\* C13 (as claimed): every ledger key other than the idle key is a cleaned
\* title, and so is the current window: raw titles with the same cleaned
\* form share one key, and a change of focus between them is no change of
\* the current window.
C13_KeysAreCleanedTitles ==
    /\ \A k \in DOMAIN window_times \ {IDLE_KEY} : IsCleaned(k)
    /\ last_window # "" => IsCleaned(last_window)
    /\ \A k1, k2 \in DOMAIN window_times \ {IDLE_KEY} :
          CleanWindowTitle(TitleChars(k1)) = CleanWindowTitle(TitleChars(k2))
              => k1 = k2

\* C14: every ledger entry is non-negative in every reachable state, and no
\* step of the polling loop or of the termination handler decreases an entry
\* or removes a key.
C14_LedgerMonotone ==
    /\ [](\A k \in DOMAIN window_times : window_times[k] >= 0)
    /\ [][\A k \in DOMAIN window_times :
            /\ k \in DOMAIN window_times'
            /\ window_times'[k] >= window_times[k]]_vars

\* a key that already held time has just been credited again
C14_Witness ==
    /\ pc = "L199"
    /\ duration > 0
    /\ last_window \in DOMAIN window_times
    /\ window_times[last_window] > duration

\* C15 (as claimed): the idle-start timestamp is present exactly while the
\* idle flag is set.
C15_IdleStartIffIdle == (idle_start_time # None) <=> is_idle

\* C16: the finished report has exactly one row per ledger key, each row
\* carrying that key's duration, and the rows are in non-increasing order of
\* duration.
C16_ReportSortedPermutation ==
    ReportDone =>
        /\ Len(report) = Cardinality(DOMAIN window_times)
        /\ \A k \in DOMAIN window_times :
              \E i \in DOMAIN report : report[i] = <<k, window_times[k]>>
        /\ \A i, j \in DOMAIN report :
              i < j => report[i][2] >= report[j][2]

\* a finished report of at least two rows with different durations
C16_Witness ==
    /\ hpc = "H147"
    /\ Len(report) >= 2
    /\ report[1][2] > report[Len(report)][2]

\* C18: a sample at or above the threshold taken while the idle flag is
\* clear sets the flag and records the current time as the idle start, and
\* leaves the ledger, the current window and the switch reference as they
\* were; until the end of that tick no bucket is credited and the switch
\* reference is not moved.  A sample that does not cross the threshold
\* changes none of the tracked state, neither does a focused title equal to
\* the current window, and the steps that only sample or sleep change none
\* of it either.
C18_IdleEntryAndNoOpFrame ==
    /\ [][(pc = "L155" /\ pc' # pc /\ hist'.sample = "high" /\ ~is_idle)
            => /\ is_idle'
               /\ idle_start_time' = Some(clock)
               /\ UNCHANGED sharedVars]_vars
    /\ [][(~is_idle /\ is_idle') => pc = "L155" /\ hist'.sample = "high"]_vars
    /\ [][(is_idle /\ hist.period # None /\ hist.period[1].start = clock)
            => UNCHANGED <<window_times, last_switch_time>>]_vars
    /\ [][(pc = "L155" /\ pc' # pc /\ (hist'.sample = "high" <=> is_idle))
            => UNCHANGED <<sharedVars, idleVars, lock>>]_vars
    /\ [][(pc = "L186" /\ pc' # pc /\ current_title = Some(last_window))
            => pc' = "L212" /\ UNCHANGED <<sharedVars, idleVars, lock>>]_vars
    /\ [][(pc \in {"L185", "L212"}) => UNCHANGED <<sharedVars, idleVars>>]_vars

\* an idle entry has just happened with time already on the ledger
C18_Witness ==
    /\ pc = "L159"
    /\ is_idle
    /\ idle_start_time = Some(clock)
    /\ last_window # ""
    /\ Total(window_times) > 0

\* C19 (as claimed): the ledger entry of the idle bucket changes only in the
\* step that ends an idle period.
C19_IdleBucketOnlyFromIdleExit ==
    [][Val(window_times', IDLE_KEY) # Val(window_times, IDLE_KEY)
          => pc = "L170"]_vars

\* C20 (as claimed): under fair scheduling every termination request is
\* eventually followed by the rendered report.
C20_ReportEventuallyRendered == (hpc = "H101") ~> (hpc = "H147")

\* C20 (amended): the loop holds no lock at the start and at the end of an
\* iteration and takes the switch-reference lock and the ledger lock of the
\* window branch only inside the current-window lock; the handler holds no
\* lock but the ledger's; and under fair scheduling a termination request is
\* eventually followed by the handler holding the ledger lock, and that by
\* the rendered report or, when a file operation fails, by the handler's
\* panic.
C20_NoDeadlockReportOrPanic ==
    /\ [](pc \in {"L155", "L185", "L186", "L212"} => HeldBy("loop") = {})
    /\ [](pc \in {"L191", "L193", "L194", "L199", "L206", "L208"}
            => lock["last_window"] = "loop")
    /\ [](HeldBy("handler") \subseteq {"window_times"})
    /\ (hpc = "H101") ~> (hpc = "H106" /\ lock["window_times"] = "handler")
    /\ (hpc = "H106") ~> (hpc \in {"H147", "panicked"})

\* the report is rendered while the loop, in the middle of an iteration,
\* waits for the ledger lock
C20_Witness ==
    /\ hpc = "H147"
    /\ Len(report) >= 1
    /\ pc \in {"L169", "L193"}
    /\ lock["window_times"] = "handler"
====
